---- MODULE Spec2Model ----
(***************************************************************************)
(* The loadAgentState workaround of the CopilotKit / AG-UI / FastAPI       *)
(* starter: the state loader of src/lib/agent-state-loader.ts, the         *)
(* /load_state endpoint of the agent it calls, and the request router of   *)
(* src/app/api/copilotkit/route.ts that drives them.                       *)
(*                                                                         *)
(* JavaScript values are tagged records [t |-> <typeof>, v |-> <payload>]. *)
(* A JSON text is the sequence of its lexical tokens; a URL is the         *)
(* sequence of its characters, a run of non-slash characters kept as one   *)
(* element.                                                                *)
(***************************************************************************)
EXTENDS Integers, Sequences, FiniteSets, TLC

(***************************************************************************)
(* Bounds                                                                  *)
(***************************************************************************)
\* The longest conversation the agent's checkpointer holds for one thread.
MaxMsgs == 2

\* The requests in flight together, the conversations and the agent names.
Reqs == {"r1", "r2"}
Threads == {"t1", "t2"}
\* The threads a chat run writes to; the others stay without history.
ActiveThreads == {"t1"}

(***************************************************************************)
(* JavaScript values                                                       *)
(***************************************************************************)
Undef == [t |-> "undefined"]
Null == [t |-> "null"]
Bool(b) == [t |-> "boolean", v |-> b]
Num(n) == [t |-> "number", v |-> n]
Str(s) == [t |-> "string", v |-> s]
Arr(elems) == [t |-> "array", v |-> elems]
\* An object is the sequence of its members [k |-> key, v |-> value], in
\* insertion order, no key twice.
Obj(members) == [t |-> "object", v |-> members]
Member(key, val) == [k |-> key, v |-> val]

\* ToBoolean: what `a && b`, `a || b` and `if (a)` look at.
Truthy(x) ==
  CASE x.t = "undefined" -> FALSE
    [] x.t = "null" -> FALSE
    [] x.t = "boolean" -> x.v
    [] x.t = "number" -> x.v # 0
    [] x.t = "string" -> x.v # ""
    [] OTHER -> TRUE

\* a || b
JsOr(a, b) == IF Truthy(a) THEN a ELSE b

\* a && b
JsAnd(a, b) == IF Truthy(a) THEN b ELSE a

\* typeof x === 'object' (null and arrays included)
TypeofObject(x) == x.t \in {"null", "array", "object"}

HasKey(x, key) == x.t = "object" /\ \E i \in 1..Len(x.v) : x.v[i].k = key

\* x.key throws a TypeError on undefined and null.
PropThrows(x) == x.t \in {"undefined", "null"}

\* x.key where it does not throw: an own member of an object, the length of
\* an array or of a string, undefined otherwise.
Prop(x, key) ==
  CASE x.t = "object" ->
         IF HasKey(x, key)
           THEN x.v[CHOOSE i \in 1..Len(x.v) : x.v[i].k = key].v
           ELSE Undef
    [] x.t = "array" /\ key = "length" -> Num(Len(x.v))
    [] x.t = "string" /\ key = "length" -> Num(Len(x.v))
    [] OTHER -> Undef

\* x?.key: undefined where x.key would throw.
OptProp(x, key) == IF PropThrows(x) THEN Undef ELSE Prop(x, key)

\* x > 0 for the values a length can be here: a number compares as itself,
\* undefined is NaN, null is 0, true is 1.
GreaterThanZero(x) ==
  CASE x.t = "number" -> x.v > 0
    [] x.t = "boolean" -> x.v
    [] OTHER -> FALSE

(***************************************************************************)
(* JSON.stringify and JSON.parse over token sequences                      *)
(***************************************************************************)
\* The strings that occur in the payloads, the conversations and the replies.
MsgId(tid, i) == tid \o "-" \o ToString(i)

Strings ==
  {"", "ab", "id", "role", "content", "user", "assistant", "hello", "reply",
   "threadId", "threadExists", "messages", "state", "turns", "length",
   "operationName", "variables", "data", "agentName", "loadAgentState",
   "LoadAgentState", "generateCopilotResponse", "sample_agent", "slash_agent",
   "ghost"}
    \cup Threads
    \cup {MsgId(tid, i) : tid \in Threads, i \in 1..MaxMsgs}

Numbers == 0..(MaxMsgs + 3)

Quote(s) == "\"" \o s \o "\""
StrTokens == {Quote(s) : s \in Strings}
NumTokens == {ToString(n) : n \in Numbers}
Unquote(tk) == CHOOSE s \in Strings : Quote(s) = tk
NumOf(tk) == CHOOSE n \in Numbers : ToString(n) = tk

RECURSIVE JSONstringify(_), JoinElems(_), JoinMembers(_)
\* The elements of an array, comma separated; undefined prints as null.
JoinElems(elems) ==
  IF elems = <<>> THEN <<>>
  ELSE LET head == IF elems[1].t = "undefined" THEN <<"null">>
                   ELSE JSONstringify(elems[1])
       IN IF Len(elems) = 1 THEN head
          ELSE head \o <<",">> \o JoinElems(Tail(elems))

\* The members of an object, comma separated; an undefined member is left out.
JoinMembers(members) ==
  IF members = <<>> THEN <<>>
  ELSE LET m == members[1]
           rest == JoinMembers(Tail(members))
       IN IF m.v.t = "undefined" THEN rest
          ELSE <<Quote(m.k), ":">> \o JSONstringify(m.v)
                 \o (IF rest = <<>> THEN <<>> ELSE <<",">> \o rest)

\* JSON.stringify(x); of undefined it is undefined, no text at all.
JSONstringify(x) ==
  CASE x.t = "undefined" -> <<>>
    [] x.t = "null" -> <<"null">>
    [] x.t = "boolean" -> IF x.v THEN <<"true">> ELSE <<"false">>
    [] x.t = "number" -> <<ToString(x.v)>>
    [] x.t = "string" -> <<Quote(x.v)>>
    [] x.t = "array" -> <<"[">> \o JoinElems(x.v) \o <<"]">>
    [] x.t = "object" -> <<"{">> \o JoinMembers(x.v) \o <<"}">>

\* The text a token sequence stands for.
RECURSIVE TextOf(_)
TextOf(toks) == IF toks = <<>> THEN "" ELSE toks[1] \o TextOf(Tail(toks))

ParseFail == [ok |-> FALSE]
ParseOk(val, next) == [ok |-> TRUE, val |-> val, next |-> next]

RECURSIVE ParseValue(_, _), ParseElements(_, _, _), ParseMembers(_, _, _)
\* One JSON value starting at token i.
ParseValue(toks, i) ==
  IF i > Len(toks) THEN ParseFail
  ELSE LET tk == toks[i] IN
    CASE tk = "null" -> ParseOk(Null, i + 1)
      [] tk = "true" -> ParseOk(Bool(TRUE), i + 1)
      [] tk = "false" -> ParseOk(Bool(FALSE), i + 1)
      [] tk \in NumTokens -> ParseOk(Num(NumOf(tk)), i + 1)
      [] tk \in StrTokens -> ParseOk(Str(Unquote(tk)), i + 1)
      [] tk = "[" -> ParseElements(toks, i + 1, <<>>)
      [] tk = "{" -> ParseMembers(toks, i + 1, <<>>)
      [] OTHER -> ParseFail

\* The elements of an array from token i, acc the elements read so far.
ParseElements(toks, i, acc) ==
  IF i > Len(toks) THEN ParseFail
  ELSE IF toks[i] = "]" /\ acc = <<>> THEN ParseOk(Arr(<<>>), i + 1)
  ELSE LET e == ParseValue(toks, i) IN
    IF ~e.ok \/ e.next > Len(toks) THEN ParseFail
    ELSE IF toks[e.next] = "," THEN ParseElements(toks, e.next + 1, Append(acc, e.val))
    ELSE IF toks[e.next] = "]" THEN ParseOk(Arr(Append(acc, e.val)), e.next + 1)
    ELSE ParseFail

\* The members of an object from token i, acc the members read so far.
ParseMembers(toks, i, acc) ==
  IF i > Len(toks) THEN ParseFail
  ELSE IF toks[i] = "}" /\ acc = <<>> THEN ParseOk(Obj(<<>>), i + 1)
  ELSE IF toks[i] \notin StrTokens \/ i + 1 > Len(toks) THEN ParseFail
  ELSE IF toks[i + 1] # ":" THEN ParseFail
  ELSE LET e == ParseValue(toks, i + 2) IN
    IF ~e.ok \/ e.next > Len(toks) THEN ParseFail
    ELSE LET m == Member(Unquote(toks[i]), e.val) IN
      IF toks[e.next] = "," THEN ParseMembers(toks, e.next + 1, Append(acc, m))
      ELSE IF toks[e.next] = "}" THEN ParseOk(Obj(Append(acc, m)), e.next + 1)
      ELSE ParseFail

\* JSON.parse(text): the value, or a SyntaxError (ok = FALSE).
JSONparse(toks) ==
  LET r == ParseValue(toks, 1) IN
    IF r.ok /\ r.next = Len(toks) + 1 THEN [ok |-> TRUE, val |-> r.val]
    ELSE [ok |-> FALSE, val |-> Undef]

(***************************************************************************)
(* src/lib/agent-state-loader.ts: the pure parts                           *)
(***************************************************************************)
\* A classifier that compares the operation name without regard to case.
isLoadAgentStateQuery_IgnoresCase(body) ==
  JsAnd(JsAnd(body, Bool(TypeofObject(body))),
        Bool(Prop(body, "operationName") \in {Str("loadAgentState"), Str("LoadAgentState")}))

\* body && typeof body === 'object' && body.operationName === 'loadAgentState':
\* the value of the expression, which is the falsy body itself when the body
\* is falsy.
isLoadAgentStateQuery(body) ==
  JsAnd(JsAnd(body, Bool(TypeofObject(body))),
        Bool(Prop(body, "operationName") = Str("loadAgentState")))

\* An extraction without its default: body?.variables?.data?.threadId.
extractThreadId_NoDefault(body) ==
  OptProp(OptProp(OptProp(body, "variables"), "data"), "threadId")

\* body?.variables?.data?.threadId || null
extractThreadId(body) ==
  JsOr(OptProp(OptProp(OptProp(body, "variables"), "data"), "threadId"), Null)

\* body?.variables?.data?.agentName || null
extractAgentName(body) ==
  JsOr(OptProp(OptProp(OptProp(body, "variables"), "data"), "agentName"), Null)

\* A base URL used as configured, trailing slash and all.
StripTrailingSlash_Keeps(url) == url

\* agentUrl.replace(/\/$/, ''): one trailing slash is removed.
StripTrailingSlash(url) ==
  IF url # <<>> /\ url[Len(url)] = "/" THEN SubSeq(url, 1, Len(url) - 1) ELSE url

LoadStateUrl(agentUrl) == StripTrailingSlash(agentUrl) \o <<"/", "load_state">>

\* The one fetch of loadStateFromAgent.
FetchRequest(agentUrl, threadId) ==
  [method |-> "POST",
   url |-> LoadStateUrl(agentUrl),
   contentType |-> "application/json",
   body |-> JSONstringify(Obj(<<Member("threadId", threadId)>>))]

\* An AgentState is [messages |-> value, state |-> value].
EmptyState == [messages |-> Arr(<<>>), state |-> Obj(<<>>)]

\* How a function call ends: it returns a value or throws an error.
Return(val) == [thrown |-> FALSE, value |-> val, error |-> "none"]
Throw(err) == [thrown |-> TRUE, value |-> EmptyState, error |-> err]

\* A non-2xx branch that returns no state object: { messages: [], state: null }.
NotOkResult_NullState == Return([messages |-> Arr(<<>>), state |-> Null])

\* if (!response.ok) { ... return { messages: [], state: {} } }
NotOkResult == Return(EmptyState)

\* A loader that reads the messages from a field the reply does not have
\* (data.message), so that the default [] is always taken.
ParsedResult_DropsMessages(data) ==
  IF PropThrows(data) THEN Throw("TypeError")
  ELSE IF PropThrows(Prop(data, "messages")) THEN Throw("TypeError")
  ELSE Return([messages |-> JsOr(Prop(data, "message"), Arr(<<>>)),
               state |-> JsOr(Prop(data, "state"), Obj(<<>>))])

\* After response.json(): data.messages.length is read for the log, then
\* { messages: data.messages || [], state: data.state || {} } is returned.
ParsedResult(data) ==
  IF PropThrows(data) THEN Throw("TypeError")
  ELSE IF PropThrows(Prop(data, "messages")) THEN Throw("TypeError")
  ELSE Return([messages |-> JsOr(Prop(data, "messages"), Arr(<<>>)),
               state |-> JsOr(Prop(data, "state"), Obj(<<>>))])

\* A catch clause that logs and rethrows what is no AbortError.
CatchResult_Rethrows(err) ==
  IF err = "AbortError" THEN Return(EmptyState) ELSE Throw(err)

\* catch (error) { ... return { messages: [], state: {} } }
CatchResult(err) == Return(EmptyState)

\* The try block ending `attempt`, through the catch clause.
TryCatch(attempt) == IF attempt.thrown THEN CatchResult(attempt.error) ELSE attempt

\* A composer that tests messages.length >= 0.
createLoadStateResponse_ExistsWhenEmpty(threadId, agentState) ==
  [threadId |-> threadId,
   threadExists |-> LET len == Prop(agentState.messages, "length")
                    IN len.t = "number" /\ len.v >= 0,
   messages |-> JSONstringify(agentState.messages),
   state |-> JSONstringify(agentState.state)]

\* A composer that serializes the state into both fields.
createLoadStateResponse_StateTwice(threadId, agentState) ==
  [threadId |-> threadId,
   threadExists |-> GreaterThanZero(Prop(agentState.messages, "length")),
   messages |-> JSONstringify(agentState.state),
   state |-> JSONstringify(agentState.state)]

createLoadStateResponse(threadId, agentState) ==
  [threadId |-> threadId,
   threadExists |-> GreaterThanZero(Prop(agentState.messages, "length")),
   messages |-> JSONstringify(agentState.messages),
   state |-> JSONstringify(agentState.state)]

(***************************************************************************)
(* The agent's /load_state endpoint                                        *)
(***************************************************************************)
\* The i-th message of a conversation: the user and the assistant alternate.
Message(tid, i) ==
  Obj(<<Member("id", Str(MsgId(tid, i))),
        Member("role", Str(IF i % 2 = 1 THEN "user" ELSE "assistant")),
        Member("content", Str(IF i % 2 = 1 THEN "hello" ELSE "reply"))>>)

\* state.values of a checkpoint: empty for a thread without history.
StateValues(msgs) ==
  IF msgs = <<>> THEN Obj(<<>>) ELSE Obj(<<Member("turns", Num(Len(msgs)))>>)

\* LoadStateResponse(threadId, threadExists, messages, state) for a thread
\* whose checkpoint holds msgs.
AgentLoadState(tid, msgs) ==
  Obj(<<Member("threadId", Str(tid)),
        Member("threadExists", Bool(Len(msgs) > 0)),
        Member("messages", Arr(msgs)),
        Member("state", StateValues(msgs))>>)

\* Bodies of a 2xx reply that parse but are not the expected
\* {messages: array, state: object}.
OddData ==
  {Obj(<<Member("state", Obj(<<Member("turns", Num(1))>>))>>),
   Obj(<<Member("messages", Str("ab")), Member("state", Obj(<<>>))>>),
   Obj(<<Member("messages", Str("")), Member("state", Null)>>),
   Obj(<<Member("messages", Num(5)), Member("state", Obj(<<>>))>>),
   Obj(<<Member("messages", Obj(<<Member("length", Num(1))>>))>>),
   Null}

\* A body that is no JSON text: a truncated reply.
GarbageBody == <<"{", Quote("messages"), ":", "[">>

\* What the agent can put on the wire for a call about thread tid.
OkWire(data, kind) ==
  [status |-> 200, ok |-> TRUE, body |-> JSONstringify(data), kind |-> kind]
Wires(tid, msgs) ==
  {OkWire(AgentLoadState(tid, msgs), "honest")}
    \cup {OkWire(d, "odd") : d \in OddData}
    \cup {[status |-> 200, ok |-> TRUE, body |-> GarbageBody, kind |-> "garbage"],
          [status |-> 500, ok |-> FALSE, body |-> <<Quote("ab")>>, kind |-> "error"]}
NoWire == [status |-> 0, ok |-> FALSE, body |-> <<>>, kind |-> "none"]

(***************************************************************************)
(* src/app/api/copilotkit/route.ts: the request router                     *)
(***************************************************************************)
\* The static agent name -> base URL mapping. The second entry is the same
\* agent configured with a trailing slash.
AGENTS_CONFIG ==
  [sample_agent |-> <<"http:", "/", "/", "localhost:8123">>,
   slash_agent |-> <<"http:", "/", "/", "localhost:8123", "/">>]

AgentResolves(agentName) ==
  agentName.t = "string" /\ agentName.v \in DOMAIN AGENTS_CONFIG

NoData == [threadId |-> Undef, threadExists |-> FALSE, messages |-> <<>>, state |-> <<>>]
NoResponse == [kind |-> "none", status |-> 0, data |-> NoData, delegated |-> Undef]

\* NextResponse.json({ data: { loadAgentState: data } })
JsonResponse(data) == [kind |-> "json", status |-> 200, data |-> data, delegated |-> Undef]

\* The output of the underlying runtime for the request handed to it.
RuntimeResponse(body) == [kind |-> "runtime", status |-> 0, data |-> NoData, delegated |-> body]

\* The answer to a state-load request whose identifiers are missing or name
\* no configured agent.
DegradedResponse(threadId) == JsonResponse(createLoadStateResponse(threadId, EmptyState))

\* The answer once loadStateFromAgent has returned.
LoadedResponse(threadId, agentState) ==
  JsonResponse(createLoadStateResponse(threadId, agentState))

\* The pass-through path: the request rebuilt around the consumed body.
PassThrough(body) == RuntimeResponse(body)

\* A catch clause that lets the exception go: the request gets no response.
FallbackResponse_Rethrows(body) == NoResponse

\* The catch clause of the router: the original request goes to the runtime.
FallbackResponse(body) == RuntimeResponse(body)

\* The inbound payloads.
LoadPayload(tid, agent) ==
  Obj(<<Member("operationName", Str("loadAgentState")),
        Member("variables",
               Obj(<<Member("data", Obj(<<Member("threadId", Str(tid)),
                                         Member("agentName", Str(agent))>>))>>))>>)

OtherPayload(op) ==
  Obj(<<Member("operationName", Str(op)),
        Member("variables",
               Obj(<<Member("data", Obj(<<Member("threadId", Str("t1")),
                                         Member("agentName", Str("sample_agent"))>>))>>))>>)

InboundPayloads ==
  {LoadPayload("t1", "sample_agent"), LoadPayload("t2", "slash_agent"),
   LoadPayload("t1", "ghost"),
   LoadPayload("", "sample_agent"),
   Obj(<<Member("operationName", Str("loadAgentState"))>>),
   OtherPayload("generateCopilotResponse"), OtherPayload("LoadAgentState"),
   Obj(<<Member("variables", Obj(<<>>))>>),
   Obj(<<Member("variables", Obj(<<Member("data", Obj(<<>>))>>))>>),
   Obj(<<Member("variables",
                Obj(<<Member("data", Obj(<<Member("threadId", Num(5)),
                                          Member("agentName", Num(0))>>))>>))>>),
   Null, Num(0), Str(""), Str("loadAgentState"), Arr(<<>>)}

(***************************************************************************)
(* State                                                                   *)
(***************************************************************************)
VARIABLES
  store,  \* the agent's checkpointer: thread -> its messages
  rq      \* request -> where it stands and what it holds

vars == <<store, rq>>

Pending == [thrown |-> FALSE, value |-> EmptyState, error |-> "pending"]

Fresh ==
  [pc |-> "idle",          \* idle, classifying, resolving, fetching,
                           \* reading_text, reading_json, loaded, done
   route |-> "NONE",       \* NONE, CLASSIFYING, STATE_LOAD, PASSTHROUGH
   body |-> Undef,         \* the inbound payload
   bodyReads |-> 0,        \* how often the request body was read
   classified |-> Undef,   \* what isLoadAgentStateQuery(body) returned
   threadId |-> Null,
   agentName |-> Null,
   calls |-> <<>>,         \* the fetches issued by loadStateFromAgent
   timer |-> "none",       \* none, pending, cleared, fired
   wire |-> NoWire,        \* the agent's response to this request's call
   outcome |-> "none",     \* how the outbound call ended
   replied |-> "none",     \* the kind of reply the agent gave
   seen |-> <<>>,          \* the thread's messages when the call settled
   result |-> Pending,     \* how loadStateFromAgent ended
   exception |-> FALSE,    \* an unexpected exception on the state-load path
   response |-> NoResponse,
   doneBefore |-> {}]      \* the requests answered before this one arrived

Init ==
  /\ store = [tid \in Threads |-> <<>>]
  /\ rq = [r \in Reqs |-> Fresh]

Set(r, new) == rq' = [rq EXCEPT ![r] = new]

\* loadStateFromAgent up to its first await: the controller and the timer
\* are created and the fetch is issued, for the request whose record is rec.
loadStateFromAgent(rec, agentUrl, threadId) ==
  [rec EXCEPT !.pc = "fetching", !.timer = "pending",
              !.calls = Append(@, FetchRequest(agentUrl, threadId))]

(***************************************************************************)
(* The agent's own life: a chat run appends to a thread's checkpoint.      *)
(***************************************************************************)
AgentAppend(tid) ==
  /\ Len(store[tid]) < MaxMsgs
  /\ store' = [store EXCEPT ![tid] = Append(@, Message(tid, Len(@) + 1))]
  /\ UNCHANGED rq

(***************************************************************************)
(* The router                                                              *)
(***************************************************************************)
\* POST(req) is entered.
Arrive(r, payload) ==
  /\ rq[r].pc = "idle"
  /\ Set(r, [rq[r] EXCEPT !.pc = "classifying", !.route = "CLASSIFYING",
                          !.body = payload,
                          !.doneBefore = {q \in Reqs : rq[q].pc = "done"}])
  /\ UNCHANGED store

\* const body = await req.json(); if (isLoadAgentStateQuery(body)) ...
ClassifyStateLoad(r) ==
  /\ rq[r].pc = "classifying"
  /\ Truthy(isLoadAgentStateQuery(rq[r].body))
  /\ Set(r, [rq[r] EXCEPT !.pc = "resolving", !.route = "STATE_LOAD",
                          !.bodyReads = @ + 1,
                          !.classified = isLoadAgentStateQuery(rq[r].body)])
  /\ UNCHANGED store

\* ... else the request is rebuilt and handed to the runtime.
ClassifyPassThrough(r) ==
  /\ rq[r].pc = "classifying"
  /\ ~Truthy(isLoadAgentStateQuery(rq[r].body))
  /\ Set(r, [rq[r] EXCEPT !.pc = "done", !.route = "PASSTHROUGH",
                          !.bodyReads = @ + 1,
                          !.classified = isLoadAgentStateQuery(rq[r].body),
                          !.response = PassThrough(rq[r].body)])
  /\ UNCHANGED store

\* The identifiers are missing or the agent is not configured.
ResolveDegraded(r) ==
  LET tid == extractThreadId(rq[r].body)
      name == extractAgentName(rq[r].body)
  IN /\ rq[r].pc = "resolving"
     /\ tid = Null \/ ~AgentResolves(name)
     /\ Set(r, [rq[r] EXCEPT !.pc = "done", !.threadId = tid, !.agentName = name,
                             !.response = DegradedResponse(tid)])
     /\ UNCHANGED store

\* The router calls loadStateFromAgent(agentUrl, threadId) and awaits it.
LoadStart(r) ==
  LET tid == extractThreadId(rq[r].body)
      name == extractAgentName(rq[r].body)
  IN /\ rq[r].pc = "resolving"
     /\ tid # Null /\ AgentResolves(name)
     /\ Set(r, loadStateFromAgent([rq[r] EXCEPT !.threadId = tid, !.agentName = name],
                                  AGENTS_CONFIG[name.v], tid))
     /\ UNCHANGED store

\* A state-load path without its early return: the composed answer is dropped
\* and the request runs on into the pass-through path.
Compose_FallsThrough(r) ==
  /\ rq[r].pc = "loaded"
  /\ ~rq[r].result.thrown
  /\ Set(r, [rq[r] EXCEPT !.pc = "done", !.route = "PASSTHROUGH",
                          !.response = PassThrough(rq[r].body)])
  /\ UNCHANGED store

\* createLoadStateResponse and the 200 answer.
Compose(r) ==
  /\ rq[r].pc = "loaded"
  /\ ~rq[r].result.thrown
  /\ Set(r, [rq[r] EXCEPT !.pc = "done",
                          !.response = LoadedResponse(rq[r].threadId, rq[r].result.value)])
  /\ UNCHANGED store

\* An exception on the state-load path, loadStateFromAgent's own included:
\* the router's catch clause delegates the original request.
Fallback(r) ==
  /\ rq[r].pc \in {"resolving", "loaded"}
  /\ Set(r, [rq[r] EXCEPT !.pc = "done", !.route = "PASSTHROUGH", !.exception = TRUE,
                          !.response = FallbackResponse(rq[r].body)])
  /\ UNCHANGED store

(***************************************************************************)
(* loadStateFromAgent, from the fetch on                                   *)
(***************************************************************************)
\* The thread the agent reads from the call's body.
CalledThread(call) == Prop(JSONparse(call.body).val, "threadId").v

\* loadStateFromAgent ends: its promise settles with `end`.
Ends(r, how, end) ==
  [rq[r] EXCEPT !.pc = "loaded", !.outcome = how, !.result = end]

\* The agent's response headers arrive: fetch resolves, the timer is cleared,
\* and the body is awaited (response.text() or response.json()).
FetchResolves(r) ==
  /\ rq[r].pc = "fetching"
  /\ LET tid == CalledThread(rq[r].calls[Len(rq[r].calls)]) IN
       /\ tid \in Threads
       /\ \E w \in Wires(tid, store[tid]) :
            Set(r, [rq[r] EXCEPT !.pc = IF w.ok THEN "reading_json" ELSE "reading_text",
                                 !.timer = "cleared", !.wire = w,
                                 !.replied = w.kind, !.seen = store[tid]])
  /\ UNCHANGED store

\* The connection fails before any response: fetch rejects, the catch clause
\* runs. The timer is left as it is.
FetchRejects(r) ==
  /\ rq[r].pc = "fetching"
  /\ Set(r, [Ends(r, "transport_error", TryCatch(Throw("TypeError")))
               EXCEPT !.seen = store[rq[r].threadId.v]])
  /\ UNCHANGED store

\* A loader whose AbortController is shared by all calls: the abort of r's
\* timer rejects every fetch still pending.
TimeoutFires_SharedController(r) ==
  /\ rq[r].timer = "pending"
  /\ rq' = [q \in Reqs |->
              IF rq[q].pc = "fetching"
                THEN [rq[q] EXCEPT !.pc = "loaded", !.outcome = "timeout",
                                   !.result = TryCatch(Throw("AbortError")),
                                   !.timer = IF q = r THEN "fired" ELSE @,
                                   !.seen = store[rq[q].threadId.v]]
                ELSE IF q = r THEN [rq[q] EXCEPT !.timer = "fired"] ELSE rq[q]]
  /\ UNCHANGED store

\* The timer fires: controller.abort(). A fetch still pending rejects with an
\* AbortError and the catch clause runs.
TimeoutFires(r) ==
  /\ rq[r].timer = "pending"
  /\ IF rq[r].pc = "fetching"
       THEN Set(r, [Ends(r, "timeout", TryCatch(Throw("AbortError")))
                      EXCEPT !.timer = "fired", !.seen = store[rq[r].threadId.v]])
       ELSE Set(r, [rq[r] EXCEPT !.timer = "fired"])
  /\ UNCHANGED store

\* The body of a non-2xx response has been read.
ErrorTextRead(r) ==
  /\ rq[r].pc = "reading_text"
  /\ Set(r, Ends(r, "http_error", TryCatch(NotOkResult)))
  /\ UNCHANGED store

\* The body of a 2xx response has been read: response.json() parses it.
JsonRead(r) ==
  /\ rq[r].pc = "reading_json"
  /\ LET parsed == JSONparse(rq[r].wire.body)
         attempt == IF parsed.ok THEN ParsedResult(parsed.val) ELSE Throw("SyntaxError")
         how == IF ~parsed.ok THEN "parse_error"
                ELSE IF attempt.thrown THEN "type_error" ELSE "success"
     IN Set(r, Ends(r, how, TryCatch(attempt)))
  /\ UNCHANGED store

\* The connection breaks while the body is read: the read rejects.
BodyReadFails(r) ==
  /\ rq[r].pc \in {"reading_text", "reading_json"}
  /\ Set(r, Ends(r, "transport_error", TryCatch(Throw("TypeError"))))
  /\ UNCHANGED store

Next ==
  \/ \E tid \in ActiveThreads : AgentAppend(tid)
  \/ \E r \in Reqs, payload \in InboundPayloads : Arrive(r, payload)
  \/ \E r \in Reqs : ClassifyStateLoad(r)
  \/ \E r \in Reqs : ClassifyPassThrough(r)
  \/ \E r \in Reqs : ResolveDegraded(r)
  \/ \E r \in Reqs : LoadStart(r)
  \/ \E r \in Reqs : FetchResolves(r)
  \/ \E r \in Reqs : FetchRejects(r)
  \/ \E r \in Reqs : TimeoutFires(r)
  \/ \E r \in Reqs : ErrorTextRead(r)
  \/ \E r \in Reqs : JsonRead(r)
  \/ \E r \in Reqs : BodyReadFails(r)
  \/ \E r \in Reqs : Compose(r)
  \/ \E r \in Reqs : Fallback(r)

Spec == Init /\ [][Next]_vars

\* A pending timer fires when it is due; nothing is assumed of the agent or of
\* the network.
FairSpec == Init /\ [][Next]_vars /\ \A r \in Reqs : WF_vars(TimeoutFires(r))

(***************************************************************************)
(* Properties                                                              *)
(***************************************************************************)
Returned(r) == rq[r].pc \in {"loaded", "done"} /\ rq[r].outcome # "none"

\* The outbound call failed: timeout, non-2xx status, transport error, or a
\* body that is no JSON.
CallFailed(r) ==
  rq[r].outcome \in {"timeout", "http_error", "transport_error", "parse_error"}

\* The state-load request r was answered along the state-load path.
Answered(r) == rq[r].pc = "done" /\ rq[r].route = "STATE_LOAD"

\* What createLoadStateResponse makes of the state loadStateFromAgent
\* returned for r.
StateLoadResponse(r) == createLoadStateResponse(rq[r].threadId, rq[r].result.value)

IsEmptyResponse(data) ==
  /\ data.threadExists = FALSE
  /\ TextOf(data.messages) = "[]"
  /\ TextOf(data.state) = "{}"

\* C1: whenever the outbound call of loadStateFromAgent fails (timeout,
\* non-2xx status, transport error, unparseable body), loadStateFromAgent
\* returns {messages: [], state: {}} and does not throw, and the response
\* createLoadStateResponse builds from it is
\* {threadExists: false, messages: "[]", state: "{}"}.
C1_FailureYieldsEmptyState ==
  \A r \in Reqs :
    CallFailed(r) =>
      /\ Returned(r)
      /\ ~rq[r].result.thrown
      /\ rq[r].result.value = [messages |-> Arr(<<>>), state |-> Obj(<<>>)]
      /\ IsEmptyResponse(StateLoadResponse(r))
      /\ Answered(r) => rq[r].response = JsonResponse(StateLoadResponse(r))

\* Two requests answered after two different failures of the outbound call.
C1_Witness ==
  /\ Answered("r1") /\ rq["r1"].outcome = "timeout"
  /\ Answered("r2") /\ rq["r2"].outcome = "parse_error"

\* C2: every call of loadStateFromAgent whose timer gets its chance to fire
\* eventually returns, whatever the agent does (no headers ever, or headers
\* and then a body that never comes).
C2_LoadEventuallyReturns ==
  \A r \in Reqs : (rq[r].pc = "fetching") ~> Returned(r)

\* C3: in every response of the state-load path, threadExists is true exactly
\* when the messages field carries a non-empty sequence of messages.
C3_ThreadExistsIffMessages ==
  \A r \in Reqs :
    Returned(r) =>
      LET carried == JSONparse(StateLoadResponse(r).messages) IN
        StateLoadResponse(r).threadExists
          <=> (carried.ok /\ carried.val.t = "array" /\ Len(carried.val.v) > 0)

\* The agent answered r's call successfully with what its checkpointer held.
HonestSuccess(r) == rq[r].outcome = "success" /\ rq[r].replied = "honest"

\* C4: when the agent answers the call successfully with N > 0 messages, the
\* response has threadExists = true, the threadId of the request, and a
\* messages field that parses to exactly those N messages in their order.
C4_MessagesRestored ==
  \A r \in Reqs :
    (Returned(r) /\ HonestSuccess(r) /\ Len(rq[r].seen) > 0) =>
      /\ StateLoadResponse(r).threadExists = TRUE
      /\ StateLoadResponse(r).threadId
           = Prop(Prop(Prop(rq[r].body, "variables"), "data"), "threadId")
      /\ JSONparse(StateLoadResponse(r).messages) = [ok |-> TRUE, val |-> Arr(rq[r].seen)]
      /\ Answered(r) => rq[r].response = JsonResponse(StateLoadResponse(r))

\* A conversation of two messages restored.
C4_Witness ==
  \E r \in Reqs :
    /\ Answered(r) /\ HonestSuccess(r)
    /\ rq[r].seen = <<Message("t1", 1), Message("t1", 2)>>
    /\ rq[r].response.data.threadExists

\* The payload is an object whose operationName is exactly 'loadAgentState'.
NamesLoadAgentState(body) ==
  /\ body.t = "object"
  /\ \E i \in 1..Len(body.v) :
       body.v[i].k = "operationName" /\ body.v[i].v = Str("loadAgentState")

\* C5: a payload whose operation name is not exactly loadAgentState (none at
\* all, or a payload that is no object) goes the pass-through path: no call
\* to the agent, and the runtime gets the original body.
C5_OtherOperationsPassThrough ==
  \A r \in Reqs :
    (rq[r].pc # "idle" /\ ~NamesLoadAgentState(rq[r].body)) =>
      /\ rq[r].calls = <<>>
      /\ rq[r].timer = "none"
      /\ rq[r].route \in {"CLASSIFYING", "PASSTHROUGH"}
      /\ rq[r].pc \in {"classifying", "done"}
      /\ rq[r].pc = "done" =>
           /\ rq[r].route = "PASSTHROUGH"
           /\ rq[r].response.kind = "runtime"
           /\ rq[r].response.delegated = rq[r].body
           /\ rq[r].bodyReads = 1

\* A differently-cased operation and a payload that is no object, both
\* delegated.
C5_Witness ==
  /\ rq["r1"].pc = "done" /\ rq["r1"].body = OtherPayload("LoadAgentState")
  /\ rq["r1"].response.delegated = rq["r1"].body
  /\ rq["r2"].pc = "done" /\ rq["r2"].body = Null
  /\ rq["r2"].response.kind = "runtime"

\* C6: a loadAgentState request whose agentName is not in the configured
\* mapping is answered by the router with HTTP 200, threadExists = false and
\* empty messages and state, and no call is made.
C6_UnknownAgentDegrades ==
  \A r \in Reqs :
    (/\ rq[r].pc = "done" /\ ~rq[r].exception
     /\ NamesLoadAgentState(rq[r].body)
     /\ ~AgentResolves(extractAgentName(rq[r].body))) =>
      /\ rq[r].route = "STATE_LOAD"
      /\ rq[r].response.kind = "json"
      /\ rq[r].response.status = 200
      /\ IsEmptyResponse(rq[r].response.data)
      /\ rq[r].calls = <<>>

\* The request for the agent 'ghost' answered.
C6_Witness ==
  \E r \in Reqs :
    /\ rq[r].pc = "done" /\ rq[r].body = LoadPayload("t1", "ghost")
    /\ rq[r].response.status = 200
    /\ ~rq[r].response.data.threadExists

\* C7: once an unexpected exception is raised on the state-load path, the
\* request is answered with the output of the runtime for the original
\* request; and no request ends without a response.
C7_ExceptionFallsBack ==
  \A r \in Reqs :
    /\ rq[r].exception =>
         /\ rq[r].pc = "done"
         /\ rq[r].response.kind = "runtime"
         /\ rq[r].response.delegated = rq[r].body
    /\ rq[r].pc = "done" => rq[r].response.kind # "none"

\* An exception raised after loadStateFromAgent had returned.
C7_Witness ==
  \E r \in Reqs :
    /\ rq[r].exception /\ rq[r].outcome = "success"
    /\ rq[r].response.kind = "runtime"

Invoked(r) == rq[r].timer # "none"

LoadStateEndpoint == <<"http:", "/", "/", "localhost:8123", "/", "load_state">>

\* C9: an invocation of loadStateFromAgent issues one call and no more, a POST
\* to {agentBaseUrl}/load_state (the same URL with and without a trailing
\* slash on the base URL) whose JSON body carries the threadId.
C9_ExactlyOneCall ==
  \A r \in Reqs :
    /\ Len(rq[r].calls) = (IF Invoked(r) THEN 1 ELSE 0)
    /\ \A i \in 1..Len(rq[r].calls) :
         /\ rq[r].calls[i].method = "POST"
         /\ rq[r].calls[i].url = LoadStateEndpoint
         /\ JSONparse(rq[r].calls[i].body)
              = [ok |-> TRUE, val |-> Obj(<<Member("threadId", rq[r].threadId)>>)]

\* Both configurations of the base URL called, one call timed out, one
\* succeeded.
C9_Witness ==
  /\ rq["r1"].agentName = Str("sample_agent") /\ rq["r1"].outcome = "timeout"
  /\ rq["r2"].agentName = Str("slash_agent") /\ rq["r2"].outcome = "success"
  /\ Len(rq["r1"].calls) = 1 /\ Len(rq["r2"].calls) = 1

\* r1 was answered before r2 arrived, both are the same state-load request,
\* and the thread held the same messages when the call of each settled.
SequentialLoads(r1, r2) ==
  /\ r1 \in rq[r2].doneBefore
  /\ Answered(r1) /\ Answered(r2)
  /\ Invoked(r1) /\ Invoked(r2)
  /\ rq[r1].body = rq[r2].body

\* C10 as stated, for an agent that reports its checkpoint whenever it
\* answers: two sequential state-loads of a thread whose stored state did not
\* change give identical responses.
C10_SequentialLoadsIdentical ==
  \A r1, r2 \in Reqs :
    (/\ SequentialLoads(r1, r2)
     /\ rq[r1].replied \in {"none", "honest"} /\ rq[r2].replied \in {"none", "honest"}
     /\ rq[r1].seen = rq[r2].seen) =>
      StateLoadResponse(r1) = StateLoadResponse(r2)

\* C10, amended: two sequential state-loads of a thread whose calls both
\* succeed give identical responses when the stored state did not change
\* between the agent's two replies and different ones when it did; a load
\* that succeeds carries the messages and state the agent held when it
\* replied.
C10_SuccessfulLoadsReflectStore ==
  /\ \A r \in Reqs :
       (Answered(r) /\ HonestSuccess(r)) =>
         /\ rq[r].response = JsonResponse(StateLoadResponse(r))
         /\ JSONparse(rq[r].response.data.messages) = [ok |-> TRUE, val |-> Arr(rq[r].seen)]
         /\ JSONparse(rq[r].response.data.state)
              = [ok |-> TRUE, val |-> StateValues(rq[r].seen)]
  /\ \A r1, r2 \in Reqs :
       (SequentialLoads(r1, r2) /\ HonestSuccess(r1) /\ HonestSuccess(r2)) =>
         (rq[r1].seen = rq[r2].seen <=> rq[r1].response = rq[r2].response)

\* Two sequential loads of a conversation that did not change in between.
C10_Witness ==
  /\ SequentialLoads("r1", "r2")
  /\ HonestSuccess("r1") /\ HonestSuccess("r2")
  /\ rq["r1"].seen = rq["r2"].seen /\ Len(rq["r1"].seen) = 2
  /\ rq["r1"].response = rq["r2"].response

\* C11 as stated: isLoadAgentStateQuery returns the boolean true for an object
\* whose operationName is exactly 'loadAgentState' and the boolean false for
\* every other payload.
C11_ClassifiesWithBoolean ==
  \A r \in Reqs :
    rq[r].pc \notin {"idle", "classifying"} =>
      rq[r].classified = Bool(NamesLoadAgentState(rq[r].body))

\* What a payload holds at variables.data.<key>: the value, or "missing" when
\* the payload, its variables, its variables.data or the field is not there.
Missing == [t |-> "missing"]
FieldAt(body, key) ==
  IF ~HasKey(body, "variables") THEN Missing
  ELSE LET variables == Prop(body, "variables") IN
    IF ~HasKey(variables, "data") THEN Missing
    ELSE LET data == Prop(variables, "data") IN
      IF ~HasKey(data, key) THEN Missing ELSE Prop(data, key)

\* The identifier the claim names for a found value: the string itself, null
\* when nothing or the empty string is found. Of a value that is no string
\* the claim says nothing.
Identifier(found, got) ==
  /\ (found.t = "string" /\ found.v # "") => got = found
  /\ (found = Missing \/ found = Str("")) => got = Null

\* C12: for every payload, extractThreadId and extractAgentName return the
\* string at variables.data.threadId (resp. agentName) when it is there and
\* null when the payload, variables, data or the field is missing or the
\* string is empty; the router goes on with exactly these values; and the
\* payload stays as it arrived.
C12_ExtractsOrNull ==
  /\ [](\A r \in Reqs :
         rq[r].pc # "idle" =>
           /\ Identifier(FieldAt(rq[r].body, "threadId"), extractThreadId(rq[r].body))
           /\ Identifier(FieldAt(rq[r].body, "agentName"), extractAgentName(rq[r].body))
           /\ (rq[r].route = "STATE_LOAD" /\ rq[r].pc # "resolving") =>
                /\ rq[r].threadId = extractThreadId(rq[r].body)
                /\ rq[r].agentName = extractAgentName(rq[r].body))
  /\ [][\A r \in Reqs : rq[r].pc # "idle" => rq'[r].body = rq[r].body]_vars

\* One request whose threadId is the empty string and one whose variables are
\* missing, both through the extraction.
C12_Witness ==
  /\ rq["r1"].body = LoadPayload("", "sample_agent")
  /\ rq["r1"].pc = "done" /\ rq["r1"].route = "STATE_LOAD"
  /\ rq["r1"].threadId = Null /\ rq["r1"].agentName = Str("sample_agent")
  /\ rq["r2"].body = Obj(<<Member("operationName", Str("loadAgentState"))>>)
  /\ rq["r2"].pc = "done" /\ rq["r2"].route = "STATE_LOAD"
  /\ rq["r2"].threadId = Null /\ rq["r2"].agentName = Null

\* The agent answered r's call successfully and reported a thread without
\* history: zero messages and an empty state.
ReportedNoHistory(r) == HonestSuccess(r) /\ rq[r].seen = <<>>

\* The text of a composed response, field by field.
Bytes(data) ==
  [threadId |-> data.threadId, threadExists |-> data.threadExists,
   messages |-> TextOf(data.messages), state |-> TextOf(data.state)]

\* C13: for the same threadId, a load whose outbound call fails (timeout,
\* non-2xx status, transport or parse error) and a load to which the agent
\* successfully reports zero messages and an empty state give byte-identical
\* responses, whatever the thread holds when the call fails.
C13_FailureLooksLikeNoHistory ==
  \A r1, r2 \in Reqs :
    (/\ Returned(r1) /\ CallFailed(r1)
     /\ Returned(r2) /\ ReportedNoHistory(r2)
     /\ rq[r1].threadId = rq[r2].threadId) =>
      /\ rq[r1].result = rq[r2].result
      /\ Bytes(StateLoadResponse(r1)) = Bytes(StateLoadResponse(r2))
      /\ (Answered(r1) /\ Answered(r2)) => rq[r1].response = rq[r2].response

\* A thread first reported as without history, then given a conversation,
\* then loaded again by a call that the agent answers with a 500: both
\* requests are answered alike.
C13_Witness ==
  /\ Answered("r1") /\ ReportedNoHistory("r1") /\ rq["r1"].threadId = Str("t1")
  /\ Answered("r2") /\ rq["r2"].outcome = "http_error" /\ rq["r2"].threadId = Str("t1")
  /\ Len(store["t1"]) = MaxMsgs
  /\ rq["r1"].response = rq["r2"].response

\* What loadStateFromAgent makes of the way r's own call ended and of the
\* agent's reply to it.
OwnResult(r) ==
  CASE rq[r].outcome \in {"timeout", "transport_error"} -> Return(EmptyState)
    [] rq[r].outcome = "http_error" -> Return(EmptyState)
    [] OTHER ->
         LET parsed == JSONparse(rq[r].wire.body)
         IN IF parsed.ok THEN TryCatch(ParsedResult(parsed.val)) ELSE Return(EmptyState)

\* C14: concurrent state-loads do not interfere. A step of one request (its
\* timer firing, its call failing or completing) changes nothing of another
\* request, whose timer and call stay as they were; and the response of each
\* request is made of its own threadId and the agent's reply to its own call.
C14_NoInterference ==
  /\ [][\A r1, r2 \in Reqs :
          (r1 # r2 /\ rq'[r1] # rq[r1]) => rq'[r2] = rq[r2]]_vars
  /\ [](\A r \in Reqs :
         /\ Returned(r) => rq[r].result = OwnResult(r)
         /\ Answered(r) =>
              /\ rq[r].threadId = extractThreadId(rq[r].body)
              /\ Invoked(r) =>
                   rq[r].response
                     = JsonResponse(createLoadStateResponse(rq[r].threadId,
                                                            OwnResult(r).value)))

\* Two calls about the same thread in flight together: the timer of one fired
\* and its request was answered empty, the other then completed and carries
\* the conversation.
C14_Witness ==
  /\ rq["r1"].threadId = Str("t1") /\ rq["r2"].threadId = Str("t1")
  /\ rq["r1"].calls # <<>> /\ rq["r2"].calls # <<>>
  /\ "r1" \notin rq["r2"].doneBefore /\ "r2" \notin rq["r1"].doneBefore
  /\ Answered("r1") /\ rq["r1"].outcome = "timeout" /\ rq["r1"].timer = "fired"
  /\ rq["r1"].seen = rq["r2"].seen
  /\ Answered("r2") /\ HonestSuccess("r2") /\ rq["r2"].timer = "cleared"
  /\ rq["r2"].response.data.threadExists

\* The agent's reply to r's call was a 2xx response whose body was read and
\* parsed.
ParsedReply(r) ==
  /\ Returned(r) /\ rq[r].outcome \in {"success", "type_error"}
  /\ rq[r].wire.ok /\ JSONparse(rq[r].wire.body).ok

\* C15 as stated: on a 2xx, parseable reply loadStateFromAgent defaults each
\* field on its own: the messages are the reply's messages, [] when it has
\* none, and the state is the reply's state, {} when it has none; a reply
\* with a state and no messages gives {messages: [], state: that state}.
C15_FieldsDefaultIndependently ==
  \A r \in Reqs :
    ParsedReply(r) =>
      LET data == JSONparse(rq[r].wire.body).val IN
        /\ ~rq[r].result.thrown
        /\ rq[r].result.value
             = [messages |-> JsOr(OptProp(data, "messages"), Arr(<<>>)),
                state |-> JsOr(OptProp(data, "state"), Obj(<<>>))]

\* C16 as stated: whatever the agent puts in the messages field of a 2xx
\* reply, the AgentState loadStateFromAgent returns has an array as its
\* messages, and the messages field of the composed response parses to a
\* sequence whose being non-empty is what threadExists says.
C16_MessagesAlwaysArray ==
  \A r \in Reqs :
    Returned(r) =>
      LET carried == JSONparse(StateLoadResponse(r).messages) IN
        /\ rq[r].result.value.messages.t = "array"
        /\ carried.ok /\ carried.val.t = "array"
        /\ StateLoadResponse(r).threadExists <=> Len(carried.val.v) > 0

\* C17 as stated: once loadStateFromAgent has returned, on any path, the timer
\* it armed is no longer pending, and the timer has fired (the abort has been
\* triggered) only in a call that ended by its timeout.
C17_TimerSettledOnReturn ==
  \A r \in Reqs :
    Returned(r) =>
      /\ rq[r].timer # "pending"
      /\ rq[r].timer = "fired" => rq[r].outcome = "timeout"

====
